---- MODULE Spec2Model ----
(***************************************************************************)
(* Shift Paste: the history store (src/data/database.py), the master index *)
(* (src/core/master.py) and their callers, as state machines.              *)
(*                                                                         *)
(* The Database object owns ONE sqlite3 connection (check_same_thread =    *)
(* False) that every caller shares.  Python's sqlite3 opens a transaction  *)
(* implicitly before the first INSERT/UPDATE/DELETE and keeps it open      *)
(* until somebody calls commit() or rollback() on the connection.  The     *)
(* tables below are the connection's view (committed rows plus the open    *)
(* transaction's changes); `disk` is the last committed state, which is    *)
(* what a rollback returns to.                                             *)
(***************************************************************************)
EXTENDS Integers, Sequences, FiniteSets, TLC

\* ------------------------------------------------------------------ bounds
MaxTime == 2
MaxId == 3
MaxCount == 3
NumThreads == 2
MaxItemId == 3
MaxFileId == 2
MaxQueryLen == 2
MaxTextLen == 3
MaxLimit == 2
MaxItems == 2
MaxCalls == 2
MaxQueue == 1
MaxKept == 1
MaxMtime == 2

\* ------------------------------------------------------------- data model
\* Text is a sequence of one-character strings.
Contents == {<<>>, <<" ">>, <<"a">>, <<"a", " ">>}

\* SQL NULL in a TIMESTAMP column.
NullTime == -1

\* A timestamp value that is a string in no format datetime can parse.
Garbled == -2

\* Whitespace characters, and text that is empty or made only of them
\* (`not s.strip()`).
Whitespace == {" ", "\t", "\n"}

IsWhitespaceOnly(s) == \A i \in 1..Len(s) : s[i] \in Whitespace

\* No call of fuzzy_left_to_right_match has returned yet.
NotCalled == <<"not called">>

\* SQL NULL in master_files.last_error.
NoError == "NULL"

\* Database._get_hash: the SHA-256 digest of the text; distinct texts of the
\* model have distinct digests.
Hash(text) == <<"sha256", text>>

VARIABLES
    clipboard_items,  \* rows of table clipboard_items (connection view)
    clip_seq,         \* sqlite_sequence of clipboard_items (AUTOINCREMENT)
    master_files,     \* rows of table master_files
    file_seq,         \* sqlite_sequence of master_files
    master_items,     \* rows of table master_items
    item_seq,         \* sqlite_sequence of master_items
    disk,             \* the last committed state of all tables
    now,              \* datetime.now()
    ret,              \* value returned by the last add_clipboard_item call
    err,              \* exception the last store call raised to its caller
    pc,               \* per thread: position inside add_clipboard_item
    arg,              \* per thread: the content argument
    t_now,            \* per thread: local `now`
    item_id,          \* per thread: local `item_id`
    mutated,          \* per thread: rows the call has inserted or updated
    raised,           \* per thread: the exception the call ended with
    r_pc,             \* position inside update_master_items / rebuild_index
    r_file,           \* update_master_items: file_id
    r_items,          \* update_master_items: items
    r_i,              \* update_master_items: number of items inserted so far
    r_old,            \* items of r_file when the running update started
    r_failed,         \* the last update_master_items call rolled back
    seen,             \* result of the last get_all_master_items call
    rows,             \* list returned by the last query of the store
    failed,           \* the last query, delete or clear hit a sqlite3.Error
    search_term,      \* fuzzy_left_to_right_match: search_term argument
    m_text,           \* fuzzy_left_to_right_match: text argument
    matched,          \* fuzzy_left_to_right_match: the returned tuple
    config,           \* FuzzySearchEngine.config
    s_items,          \* search: the items argument
    s_limit,          \* search: the limit argument (0: None)
    results,          \* search: the list the last call returned
    calls,            \* number of search calls made
    searched_at,      \* datetime.now() of the last search call
    date_val,         \* get_time_ago_string: the date_val argument
    time_ago,         \* get_time_ago_string: the returned string
    clipboard,        \* the system clipboard: its text and who put it there
    focus,            \* name of the process that owns the foreground window
    running,          \* ClipboardMonitor._running
    last_hash,        \* ClipboardMonitor._last_hash
    ignore_next,      \* ClipboardMonitor._ignore_next
    signals,          \* clipboard_changed signals queued for the main thread
    m_failed,         \* the monitor's last iteration could not read the clipboard
    paste_pc,         \* position inside ShiftPasteApp._on_item_selected
    watch_paths,      \* MasterPollingThread._watch_paths
    last_mtimes,      \* MasterPollingThread._last_mtimes
    workbooks         \* the workbooks on disk: modification time and state

tables == <<clipboard_items, clip_seq, master_files, file_seq, master_items, item_seq>>
threadvars == <<pc, arg, t_now, item_id, mutated, raised>>
replacevars == <<r_pc, r_file, r_items, r_i, r_old, r_failed, seen>>
enginevars == <<config, s_items, s_limit, results, calls, searched_at, date_val,
                time_ago>>
queryvars == <<rows, failed, search_term, m_text, matched, enginevars>>
monitorvars == <<clipboard, focus, running, last_hash, ignore_next, signals,
                 m_failed, paste_pc>>
watchvars == <<watch_paths, last_mtimes, workbooks>>
servicevars == <<monitorvars, watchvars>>
vars == <<tables, disk, now, ret, err, threadvars, replacevars, queryvars,
          servicevars>>

Threads == 1..NumThreads

\* The connection's view of all tables.
View ==
    [clipboard_items |-> clipboard_items, clip_seq |-> clip_seq,
     master_files |-> master_files, file_seq |-> file_seq,
     master_items |-> master_items, item_seq |-> item_seq]

\* conn.commit(): the open transaction becomes the committed state.
Commit == disk' = View'

\* datetime.now() moves on between calls; two calls may also read the same
\* value.
Tick ==
    /\ now < MaxTime
    /\ now' = now + 1
    /\ UNCHANGED <<tables, disk, ret, err, threadvars, replacevars, queryvars,
                   servicevars>>

\* ------------------------------------------------ clipboard_items statements
\* The UNIQUE constraint on content_hash: an INSERT of hash h raises
\* sqlite3.IntegrityError when a row with that hash exists.
NoUniqueConstraint(items, h) == FALSE

UniqueViolation(items, h) == \E r \in items : r.content_hash = h

\* INSERT INTO clipboard_items (...): copy_count takes its DEFAULT 1.
NewClipRowCountZero(id, content, t) ==
    [id |-> id, content |-> content, content_hash |-> Hash(content),
     created_at |-> t, last_copied_at |-> t, copy_count |-> 0]

NewClipRow(id, content, t) ==
    [id |-> id, content |-> content, content_hash |-> Hash(content),
     created_at |-> t, last_copied_at |-> t, copy_count |-> 1]

\* UPDATE clipboard_items SET last_copied_at = ?, copy_count = copy_count + 1
\* WHERE content_hash = ?
TouchRowsNoIncrement(items, h, t) ==
    {IF r.content_hash = h THEN [r EXCEPT !.last_copied_at = t] ELSE r : r \in items}

TouchRows(items, h, t) ==
    {IF r.content_hash = h
        THEN [r EXCEPT !.last_copied_at = t, !.copy_count = @ + 1]
        ELSE r : r \in items}

\* SELECT id FROM clipboard_items WHERE content_hash = ?; row['id'] if row else -1
SelectIdByHash(items, h) ==
    IF \E r \in items : r.content_hash = h
        THEN (CHOOSE r \in items : r.content_hash = h).id
        ELSE -1

\* ---------------------------------------------- ContentStore, whole calls
\* A statement of add_clipboard_item raises a sqlite3.Error that is not the
\* IntegrityError of the duplicate: no clause of the method catches it, so
\* the caller gets the exception and no return value.
StatementFailsSwallowed == err' = "none" /\ ret' = -1

StatementFails == err' = "OperationalError" /\ UNCHANGED ret

\* Where a storage failure can hit add_clipboard_item: nowhere, at the
\* INSERT, at the UPDATE.
Faults == {"none", "insert", "update"}

\* Database.add_clipboard_item(content), run without interleaving.
add_clipboard_item(content, fault) ==
    /\ UNCHANGED <<master_files, file_seq, master_items, item_seq>>
    /\ IF Len(content) = 0
          THEN /\ ret' = -1
               /\ err' = "none"
               /\ UNCHANGED <<clipboard_items, clip_seq, disk>>
          ELSE IF fault = "insert"
          THEN /\ StatementFails
               /\ UNCHANGED <<clipboard_items, clip_seq, disk>>
          ELSE IF ~UniqueViolation(clipboard_items, Hash(content))
          THEN /\ clip_seq < MaxId
               /\ clipboard_items' =
                      clipboard_items \cup {NewClipRow(clip_seq + 1, content, now)}
               /\ clip_seq' = clip_seq + 1
               /\ ret' = clip_seq + 1
               /\ err' = "none"
               /\ Commit
          ELSE IF fault = "update"
          THEN /\ StatementFails
               /\ UNCHANGED <<clipboard_items, clip_seq, disk>>
          ELSE /\ \A r \in clipboard_items :
                      r.content_hash = Hash(content) => r.copy_count < MaxCount
               /\ clipboard_items' = TouchRows(clipboard_items, Hash(content), now)
               /\ UNCHANGED clip_seq
               /\ ret' = SelectIdByHash(clipboard_items', Hash(content))
               /\ err' = "none"
               /\ Commit
    /\ UNCHANGED <<now, threadvars, replacevars, queryvars,
                   servicevars>>

\* DELETE FROM clipboard_items WHERE id = ?
DeleteAnyRow(items, id) == {}

DeleteById(items, id) == {r \in items : r.id # id}

\* The delete on a table whose id is a plain INTEGER PRIMARY KEY, without
\* AUTOINCREMENT: the next insert takes the highest id in use plus one.
DeleteAndReuseId(id) ==
    /\ clipboard_items' = DeleteById(clipboard_items, id)
    /\ clip_seq' = IF clipboard_items' = {} THEN 0
                   ELSE (CHOOSE r \in clipboard_items' :
                            \A o \in clipboard_items' : o.id <= r.id).id
    /\ UNCHANGED <<master_files, file_seq, master_items, item_seq>>
    /\ Commit
    /\ err' = "none"
    /\ UNCHANGED <<now, ret, threadvars, replacevars, queryvars, servicevars>>

\* Database.delete_clipboard_item(item_id)
delete_clipboard_item(id) ==
    /\ clipboard_items' = DeleteById(clipboard_items, id)
    /\ UNCHANGED <<clip_seq, master_files, file_seq, master_items, item_seq>>
    /\ Commit
    /\ err' = "none"
    /\ UNCHANGED <<now, ret, threadvars, replacevars, queryvars,
                   servicevars>>

\* Database.clear_clipboard_history(): DELETE FROM clipboard_items; commit;
\* VACUUM.  sqlite_sequence keeps its value.
ClearEveryTable ==
    /\ clipboard_items' = {}
    /\ master_items' = {}
    /\ UNCHANGED <<clip_seq, master_files, file_seq, item_seq>>
    /\ Commit
    /\ err' = "none"
    /\ UNCHANGED <<now, ret, threadvars, replacevars, queryvars,
                   servicevars>>

clear_clipboard_history ==
    /\ clipboard_items' = {}
    /\ UNCHANGED <<clip_seq, master_files, file_seq, master_items, item_seq>>
    /\ Commit
    /\ err' = "none"
    /\ UNCHANGED <<now, ret, threadvars, replacevars, queryvars,
                   servicevars>>

\* ------------------------------ add_clipboard_item, statement by statement
\* Thread t enters add_clipboard_item(c): `if not content: return -1`,
\* then the hash, the cursor and `now = datetime.now()`.
Call(t, c) ==
    /\ pc[t] = "idle"
    /\ arg' = [arg EXCEPT ![t] = c]
    /\ t_now' = [t_now EXCEPT ![t] = now]
    /\ IF Len(c) = 0
          THEN /\ item_id' = [item_id EXCEPT ![t] = -1]
               /\ pc' = [pc EXCEPT ![t] = "done"]
          ELSE /\ pc' = [pc EXCEPT ![t] = "insert"]
               /\ UNCHANGED item_id
    /\ UNCHANGED <<tables, disk, now, ret, err, mutated, raised, replacevars, queryvars,
                   servicevars>>

\* The INSERT succeeds: item_id = cursor.lastrowid.
InsertOk(t) ==
    /\ pc[t] = "insert"
    /\ ~UniqueViolation(clipboard_items, Hash(arg[t]))
    /\ clip_seq < MaxId
    /\ clipboard_items' =
           clipboard_items \cup {NewClipRow(clip_seq + 1, arg[t], t_now[t])}
    /\ clip_seq' = clip_seq + 1
    /\ item_id' = [item_id EXCEPT ![t] = clip_seq + 1]
    /\ mutated' = [mutated EXCEPT ![t] = @ + 1]
    /\ pc' = [pc EXCEPT ![t] = "commit"]
    /\ UNCHANGED <<master_files, file_seq, master_items, item_seq>>
    /\ UNCHANGED <<disk, now, ret, err, arg, t_now, raised, replacevars, queryvars,
                   servicevars>>

\* The INSERT raises sqlite3.IntegrityError: the hash is already there.
\* `except sqlite3.IntegrityError` catches it and goes on to the UPDATE.
InsertDuplicate(t) ==
    /\ pc[t] = "insert"
    /\ UniqueViolation(clipboard_items, Hash(arg[t]))
    /\ pc' = [pc EXCEPT ![t] = "update"]
    /\ UNCHANGED <<tables, disk, now, ret, err, arg, t_now, item_id, mutated, raised,
                   replacevars, queryvars,
                   servicevars>>

\* The INSERT raises another sqlite3.Error (disk full, I/O error): nothing
\* in add_clipboard_item catches it, the caller gets the exception.
InsertFails(t) ==
    /\ pc[t] = "insert"
    /\ pc' = [pc EXCEPT ![t] = "done"]
    /\ raised' = [raised EXCEPT ![t] = "OperationalError"]
    /\ UNCHANGED <<tables, disk, now, ret, err, arg, t_now, item_id, mutated, replacevars, queryvars,
                   servicevars>>

\* UPDATE ... WHERE content_hash = ?
Update(t) ==
    /\ pc[t] = "update"
    /\ clipboard_items' = TouchRows(clipboard_items, Hash(arg[t]), t_now[t])
    /\ mutated' = [mutated EXCEPT ![t] =
           @ + Cardinality({r \in clipboard_items : r.content_hash = Hash(arg[t])})]
    /\ pc' = [pc EXCEPT ![t] = "select"]
    /\ UNCHANGED <<clip_seq, master_files, file_seq, master_items, item_seq>>
    /\ UNCHANGED <<disk, now, ret, err, arg, t_now, item_id, raised, replacevars, queryvars,
                   servicevars>>

\* SELECT id ...; item_id = row['id'] if row else -1
Select(t) ==
    /\ pc[t] = "select"
    /\ item_id' = [item_id EXCEPT ![t] = SelectIdByHash(clipboard_items, Hash(arg[t]))]
    /\ pc' = [pc EXCEPT ![t] = "commit"]
    /\ UNCHANGED <<tables, disk, now, ret, err, arg, t_now, mutated, raised, replacevars, queryvars,
                   servicevars>>

\* self.conn.commit(); return item_id
CommitReturn(t) ==
    /\ pc[t] = "commit"
    /\ UNCHANGED tables
    /\ Commit
    /\ pc' = [pc EXCEPT ![t] = "done"]
    /\ UNCHANGED <<now, ret, err, arg, t_now, item_id, mutated, raised, replacevars, queryvars,
                   servicevars>>

\* One statement of one thread's add_clipboard_item call.
ThreadStep ==
    \E t \in Threads :
        \/ \E c \in Contents : Call(t, c)
        \/ InsertOk(t)
        \/ InsertDuplicate(t)
        \/ InsertFails(t)
        \/ Update(t)
        \/ Select(t)
        \/ CommitReturn(t)

\* ------------------------------------------------------------ MasterIndex
\* Paths of the Excel files that can be registered.
Paths == {"p1", "p2"}

\* What rebuild_index extracts from a worksheet's first column: (text, row
\* number) of the non-empty cells, in row order.
ItemLists ==
    {<<>>, << <<<<"y">>, 2>> >>, << <<<<"x">>, 1>>, <<<<"y">>, 2>> >>}

\* How a rebuild_index call can go: the file is gone, openpyxl cannot be
\* imported, load_workbook raises, the workbook has no active sheet,
\* iter_rows raises, update_master_items hits a sqlite3.Error, or all is well.
Outcomes ==
    {"missing", "no_openpyxl", "load_error", "no_sheet", "read_error",
     "write_error", "ok"}

FailureOutcomes == Outcomes \ {"ok"}

\* SELECT id FROM master_files WHERE file_path = ?  (-1: no row)
FileIdOf(files, path) ==
    IF \E f \in files : f.file_path = path
        THEN (CHOOSE f \in files : f.file_path = path).id
        ELSE -1

\* INSERT INTO master_files (file_path) VALUES (?): is_enabled DEFAULT 1.
NewFileRow(id, path) ==
    [id |-> id, file_path |-> path, is_enabled |-> 1,
     last_modified |-> NullTime, last_error |-> NoError]

\* Database.add_master_file(file_path)
add_master_file(path) ==
    /\ IF FileIdOf(master_files, path) = -1
          THEN /\ file_seq < MaxFileId
               /\ master_files' = master_files \cup {NewFileRow(file_seq + 1, path)}
               /\ file_seq' = file_seq + 1
               /\ UNCHANGED <<clipboard_items, clip_seq, master_items, item_seq>>
               /\ Commit
          ELSE UNCHANGED <<tables, disk>>
    /\ UNCHANGED <<now, ret, err, threadvars, replacevars, queryvars,
                   servicevars>>

\* UPDATE master_files SET last_error = ?, is_enabled = 0 WHERE id = ?
MarkEveryFile(files, id, error) ==
    {[f EXCEPT !.last_error = error, !.is_enabled = 0] : f \in files}

MarkFileError(files, id, error) ==
    {IF f.id = id THEN [f EXCEPT !.last_error = error, !.is_enabled = 0] ELSE f :
        f \in files}

\* UPDATE master_files SET last_error = ?, is_enabled = 0 WHERE file_path = ?
MarkFileErrorByPath(files, path, error) ==
    {IF f.file_path = path THEN [f EXCEPT !.last_error = error, !.is_enabled = 0] ELSE f :
        f \in files}

\* UPDATE master_files SET last_error = NULL, is_enabled = 1 WHERE id = ?
ClearError(files, id) ==
    {IF f.id = id THEN [f EXCEPT !.last_error = NoError, !.is_enabled = 1] ELSE f :
        f \in files}

\* UPDATE master_files SET last_modified = ?, last_error = NULL WHERE id = ?
StampModified(files, id, t) ==
    {IF f.id = id THEN [f EXCEPT !.last_modified = t, !.last_error = NoError] ELSE f :
        f \in files}

\* DELETE FROM master_items WHERE master_file_id = ?
KeepItemsOf(items, file_id) == items

DeleteItemsOf(items, file_id) == {i \in items : i.master_file_id # file_id}

\* INSERT INTO master_items (master_file_id, content, row_number): the k-th
\* row inserted after sequence value seq.
NewItemRow(seq, k, file_id, item) ==
    [id |-> seq + k, master_file_id |-> file_id,
     content |-> item[1], row_number |-> item[2]]

\* The DELETE and every INSERT of update_master_items.
ReplaceItems(tbl, seq, file_id, items) ==
    DeleteItemsOf(tbl, file_id)
        \cup {NewItemRow(seq, k, file_id, items[k]) : k \in 1..Len(items)}

\* Database.get_all_master_items(): master_items JOIN master_files WHERE
\* mf.is_enabled = 1.
AllEnabled(files, items) ==
    {i \in items :
        \E f \in files : f.id = i.master_file_id /\ f.is_enabled = 1}

\* The (content, row_number) pairs stored for a file.
Snapshot(items, file_id) ==
    {<<i.content, i.row_number>> : i \in {j \in items : j.master_file_id = file_id}}

\* The pairs of an items argument.
PairsOf(items) == {items[k] : k \in 1..Len(items)}

\* MasterManager.rebuild_index(file_path), run without interleaving.
rebuild_index(path, outcome, items) ==
    /\ UNCHANGED file_seq
    /\ IF outcome \in {"missing", "no_openpyxl"} \/ FileIdOf(master_files, path) = -1
          THEN UNCHANGED <<clipboard_items, clip_seq, master_files, master_items,
                           item_seq, disk>>
          ELSE LET file_id == FileIdOf(master_files, path) IN
               /\ CASE outcome \in {"load_error", "no_sheet"} ->
                         /\ master_files' = MarkFileError(master_files, file_id, outcome)
                         /\ UNCHANGED <<clipboard_items, clip_seq, master_items, item_seq>>
                    [] outcome = "read_error" ->
                         /\ master_files' = MarkFileErrorByPath(master_files, path, outcome)
                         /\ UNCHANGED <<clipboard_items, clip_seq, master_items, item_seq>>
                    [] outcome = "write_error" ->
                         \* update_master_items: rollback, the error is printed
                         \* and not raised; rebuild_index goes on.
                         /\ clipboard_items' = disk.clipboard_items
                         /\ clip_seq' = disk.clip_seq
                         /\ master_items' = disk.master_items
                         /\ item_seq' = disk.item_seq
                         /\ master_files' = ClearError(disk.master_files, file_id)
                    [] outcome = "ok" ->
                         /\ item_seq + Len(items) <= MaxItemId
                         /\ master_items' =
                                ReplaceItems(master_items, item_seq, file_id, items)
                         /\ item_seq' = item_seq + Len(items)
                         /\ master_files' =
                                ClearError(StampModified(master_files, file_id, now), file_id)
                         /\ UNCHANGED <<clipboard_items, clip_seq>>
               /\ Commit
    /\ UNCHANGED <<now, ret, err, threadvars, replacevars, queryvars,
                   servicevars>>

\* Database.delete_master_file(file_id): the items go with the file
\* (ON DELETE CASCADE, PRAGMA foreign_keys = ON).
delete_master_file(file_id) ==
    /\ master_files' = {f \in master_files : f.id # file_id}
    /\ master_items' = DeleteItemsOf(master_items, file_id)
    /\ UNCHANGED <<clipboard_items, clip_seq, file_seq, item_seq>>
    /\ Commit
    /\ UNCHANGED <<now, ret, err, threadvars, replacevars, queryvars,
                   servicevars>>

\* ------------------------------ update_master_items, statement by statement
\* conn.rollback(): the connection's view returns to the committed state.
\* An open transaction is the connection's, not the caller's: whatever any
\* thread changed since the last commit goes with it.
Rollback ==
    /\ clipboard_items' = disk.clipboard_items
    /\ clip_seq' = disk.clip_seq
    /\ master_files' = disk.master_files
    /\ file_seq' = disk.file_seq
    /\ master_items' = disk.master_items
    /\ item_seq' = disk.item_seq
    /\ UNCHANGED disk

\* update_master_items(file_id, items) is entered (`with self.conn:`).
\* r_old keeps what was stored for the file at that moment.
ReplaceBegin(file_id, items) ==
    /\ r_pc = "idle"
    /\ \E f \in master_files : f.id = file_id
    /\ item_seq + Len(items) <= MaxItemId
    /\ r_pc' = "delete"
    /\ r_file' = file_id
    /\ r_items' = items
    /\ r_i' = 0
    /\ r_old' = Snapshot(master_items, file_id)
    /\ r_failed' = FALSE
    /\ UNCHANGED <<tables, disk, now, ret, err, threadvars, queryvars, servicevars,
                   seen>>

\* DELETE FROM master_items WHERE master_file_id = ?
ReplaceDelete ==
    /\ r_pc = "delete"
    /\ master_items' = DeleteItemsOf(master_items, r_file)
    /\ r_pc' = "insert"
    /\ UNCHANGED <<clipboard_items, clip_seq, master_files, file_seq, item_seq>>
    /\ UNCHANGED <<disk, now, ret, err, threadvars, queryvars, servicevars,
                   r_file, r_items, r_i, r_old, r_failed, seen>>

\* executemany: one INSERT per item.
ReplaceInsert ==
    /\ r_pc = "insert"
    /\ r_i < Len(r_items)
    /\ master_items' =
           master_items \cup {NewItemRow(item_seq, 1, r_file, r_items[r_i + 1])}
    /\ item_seq' = item_seq + 1
    /\ r_i' = r_i + 1
    /\ UNCHANGED <<clipboard_items, clip_seq, master_files, file_seq>>
    /\ UNCHANGED <<disk, now, ret, err, threadvars, queryvars, servicevars,
                   r_pc, r_file, r_items, r_old, r_failed, seen>>

\* UPDATE master_files SET last_modified = ?, last_error = NULL WHERE id = ?
ReplaceStamp ==
    /\ r_pc = "insert"
    /\ r_i = Len(r_items)
    /\ master_files' = StampModified(master_files, r_file, now)
    /\ r_pc' = "commit"
    /\ UNCHANGED <<clipboard_items, clip_seq, file_seq, master_items, item_seq>>
    /\ UNCHANGED <<disk, now, ret, err, threadvars, queryvars, servicevars,
                   r_file, r_items, r_i, r_old, r_failed, seen>>

\* The `with` block ends: commit.
ReplaceCommit ==
    /\ r_pc = "commit"
    /\ UNCHANGED tables
    /\ Commit
    /\ r_pc' = "idle"
    /\ UNCHANGED <<now, ret, err, threadvars, queryvars, servicevars,
                   r_file, r_items, r_i, r_old, r_failed, seen>>

\* A statement of the block raises sqlite3.Error: the `with` block rolls
\* back, `except sqlite3.Error` prints the error and the call returns.
ReplaceFail ==
    /\ r_pc \in {"delete", "insert", "commit"}
    /\ Rollback
    /\ r_pc' = "idle"
    /\ r_failed' = TRUE
    /\ UNCHANGED <<now, ret, err, threadvars, queryvars, servicevars,
                   r_file, r_items, r_i, r_old, seen>>

\* Database.get_all_master_items() on another thread: one SELECT through the
\* shared connection.
get_all_master_items ==
    /\ seen' = AllEnabled(master_files, master_items)
    /\ UNCHANGED <<tables, disk, now, ret, err, threadvars, queryvars, r_pc, r_file, r_items, r_i,
                   r_old, r_failed, servicevars>>

\* ------------------------------------------------------------ MatchEngine
\* str.lower() on the characters of the model.
Lower(ch) ==
    CASE ch = "A" -> "a"
      [] ch = "B" -> "b"
      [] ch = "X" -> "x"
      [] OTHER -> ch

LowerText(s) == [i \in 1..Len(s) |-> Lower(s[i])]

\* str.replace(' ', ''): the space character goes, every other character
\* (tab and newline too) stays.
RemoveSpaces(s) == SelectSeq(s, LAMBDA ch : ch # " ")

\* search = search_term.lower().replace(' ', '')
NormalizeSearch(term) == RemoveSpaces(LowerText(term))

\* A find that returns the highest index that holds char.
FindLast(target, ch, pos) ==
    LET hits == {i \in pos..(Len(target) - 1) : target[i + 1] = ch} IN
    IF hits = {} THEN -1 ELSE CHOOSE i \in hits : \A j \in hits : i >= j

\* target.find(char, pos): the lowest 0-based index >= pos that holds char,
\* -1 when there is none.
Find(target, ch, pos) ==
    LET hits == {i \in pos..(Len(target) - 1) : target[i + 1] = ch} IN
    IF hits = {} THEN -1 ELSE CHOOSE i \in hits : \A j \in hits : i <= j

\* The loop over the characters of `search`: the list matched_positions, or
\* <<-1>> when a find returned -1 (the early `return False, 0.0`).
RECURSIVE MatchedPositions(_, _, _)
MatchedPositions(search, target, pos) ==
    IF search = <<>>
        THEN <<>>
        ELSE LET p == Find(target, Head(search), pos) IN
             IF p = -1
                 THEN <<-1>>
                 ELSE LET rest == MatchedPositions(Tail(search), target, p + 1) IN
                      IF rest = <<-1>> THEN <<-1>> ELSE <<p>> \o rest

\* `search in target`: search is a contiguous part of target.
Contains(search, target) ==
    \E k \in 0..(Len(target) - Len(search)) :
        \A i \in 1..Len(search) : target[k + i] = search[i]

\* The float 1.0 of a quality; qualities are kept in millionths.
One == 1000000

Min(a, b) == IF a <= b THEN a ELSE b

\* The characters of ' \n\t-_'.
BoundaryChars == {" ", "\n", "\t", "-", "_"}

\* Matched positions at the start of the text or right after a boundary
\* character: each adds 0.05 to word_boundary_boost.
BoundaryHits(positions, target) ==
    Cardinality({i \in 1..Len(positions) :
        positions[i] = 0 \/ target[positions[i]] \in BoundaryChars})

\* density = len(search) / span
Density(search, positions) ==
    (Len(search) * One) \div (positions[Len(positions)] - positions[1] + 1)

\* if search in target: density = min(1.0, density * 1.2)
SubstringBoost(density, search, target) ==
    IF Contains(search, target) THEN Min(One, (density * 12) \div 10) ELSE density

\* density = min(1.0, density * word_boundary_boost)
BoundaryBoostUncapped(density, hits) == (density * (100 + 5 * hits)) \div 100

BoundaryBoost(density, hits) == Min(One, (density * (100 + 5 * hits)) \div 100)

\* FuzzySearchEngine.fuzzy_left_to_right_match(search_term, text): the tuple
\* (is_match, quality).
MatchResult(term, txt) ==
    LET search == NormalizeSearch(term)
        target == LowerText(txt)
        positions == MatchedPositions(search, target, 0)
    IN  IF search = <<>>
            THEN <<TRUE, One>>
            ELSE IF positions = <<-1>>
            THEN <<FALSE, 0>>
            ELSE <<TRUE,
                   BoundaryBoost(
                       SubstringBoost(Density(search, positions), search, target),
                       BoundaryHits(positions, target))>>

\* All texts of at most n characters of a set.
Strings(chars, n) == UNION {[1..k -> chars] : k \in 0..n}

\* The queries and the texts the matcher is run on: every string over a few
\* characters, and the examples of the method's docstring.
Queries ==
    Strings({"a", "b", "B", " ", "\t"}, MaxQueryLen)
        \cup {<<"a", "b", "c">>, <<"x", "y", "z">>}

Texts ==
    Strings({"a", "b", "B", " "}, MaxTextLen)
        \cup {<<"a", "X", "b", "X", "c">>, <<"a", "b", "c">>}

\* One call of the matcher.
fuzzy_left_to_right_match ==
    /\ matched = NotCalled
    /\ matched' = MatchResult(search_term, m_text)
    /\ UNCHANGED <<tables, disk, now, ret, err, threadvars, replacevars, rows,
                   failed, search_term, m_text, enginevars,
                   servicevars>>

\* ------------------------------------------------- queries of the store
\* ORDER BY last_copied_at DESC, read through idx_clipboard_recency
\* (last_copied_at DESC): rows of equal last_copied_at come in rowid order,
\* lowest id first.
RECURSIVE ByRecency(_)
ByRecency(items) ==
    IF items = {}
        THEN <<>>
        ELSE LET first == CHOOSE r \in items : \A o \in items :
                              \/ o.last_copied_at < r.last_copied_at
                              \/ (o.last_copied_at = r.last_copied_at /\ o.id >= r.id)
             IN  <<first>> \o ByRecency(items \ {first})

\* A scan of a table without ORDER BY: rowid order.
RECURSIVE ById(_)
ById(items) ==
    IF items = {}
        THEN <<>>
        ELSE LET first == CHOOSE r \in items : \A o \in items : o.id >= r.id
             IN  <<first>> \o ById(items \ {first})

\* LIMIT n (n >= 0)
Limit(rs, n) == SubSeq(rs, 1, Min(n, Len(rs)))

\* "%" + "%".join(list(clean_query)) + "%"
RECURSIVE LikePattern(_)
LikePattern(clean_query) ==
    IF clean_query = <<>>
        THEN <<"%">>
        ELSE <<"%", Head(clean_query)>> \o LikePattern(Tail(clean_query))

\* SQL `t LIKE p`: % stands for any run of characters, _ for any one
\* character, letters compare without case.
RECURSIVE Like(_, _)
Like(t, p) ==
    IF p = <<>> THEN t = <<>>
    ELSE IF Head(p) = "%" THEN Like(t, Tail(p)) \/ (t # <<>> /\ Like(Tail(t), p))
    ELSE /\ t # <<>>
         /\ (Head(p) = "_" \/ Lower(Head(t)) = Lower(Head(p)))
         /\ Like(Tail(t), Tail(p))

\* WHERE LOWER(content) LIKE ?  with the pattern built from the query.
LikeQuery(items, query) ==
    {r \in items :
        Like(LowerText(r.content), LikePattern(LowerText(RemoveSpaces(query))))}

\* master_items JOIN master_files ... WHERE mf.is_enabled = 1: each item with
\* file_path and master_modified of its file.
JoinEnabled(files, items) ==
    {[id |-> i.id, master_file_id |-> i.master_file_id, content |-> i.content,
      row_number |-> i.row_number, file_path |-> f.file_path,
      master_modified |-> f.last_modified] :
        <<i, f>> \in {p \in items \X files :
                         p[2].id = p[1].master_file_id /\ p[2].is_enabled = 1}}

\* SELECT *, '<table>' as source_table: each row with the extra column.
WithSource(rs, table) == [k \in 1..Len(rs) |-> [source_table |-> table] @@ rs[k]]

\* Database.get_recent_items(limit): a sqlite3.Error gives the empty list.
RecentItems(limit) == WithSource(Limit(ByRecency(clipboard_items), limit), "clipboard")

\* The rows Database.get_all_master_items() returns.
AllMasterItems == WithSource(ById(JoinEnabled(master_files, master_items)), "master")

get_recent_items(limit, fault) ==
    /\ rows' = IF fault THEN <<>> ELSE RecentItems(limit)
    /\ failed' = fault
    /\ err' = "none"
    /\ UNCHANGED <<tables, disk, now, ret, threadvars, replacevars, search_term,
                   m_text, matched, enginevars,
                   servicevars>>

\* Database.search_clipboard(query, limit)
search_clipboard(query, limit, fault) ==
    /\ rows' = IF fault THEN <<>>
               ELSE IF IsWhitespaceOnly(query)
               THEN Limit(ByRecency(clipboard_items), limit)
               ELSE Limit(ByRecency(LikeQuery(clipboard_items, query)), limit * 2)
    /\ failed' = fault
    /\ err' = "none"
    /\ UNCHANGED <<tables, disk, now, ret, threadvars, replacevars, search_term,
                   m_text, matched, enginevars,
                   servicevars>>

\* Database.search_masters(query, limit)
search_masters(query, limit, fault) ==
    /\ rows' = IF fault THEN <<>>
               ELSE IF IsWhitespaceOnly(query)
               THEN Limit(ById(JoinEnabled(master_files, master_items)), limit)
               ELSE Limit(ById(LikeQuery(JoinEnabled(master_files, master_items), query)),
                          limit * 2)
    /\ failed' = fault
    /\ err' = "none"
    /\ UNCHANGED <<tables, disk, now, ret, threadvars, replacevars, search_term,
                   m_text, matched, enginevars,
                   servicevars>>

\* delete_clipboard_item / clear_clipboard_history when the DELETE raises
\* sqlite3.Error: the except clause prints a warning and the call returns.
DeleteFails(id) ==
    /\ failed' = TRUE
    /\ err' = "none"
    /\ UNCHANGED <<tables, disk, now, ret, threadvars, replacevars, rows,
                   search_term, m_text, matched, enginevars,
                   servicevars>>

ClearFails ==
    /\ failed' = TRUE
    /\ err' = "none"
    /\ UNCHANGED <<tables, disk, now, ret, threadvars, replacevars, rows,
                   search_term, m_text, matched, enginevars,
                   servicevars>>

\* ---------------------------------------------------------- RankingEngine
\* SearchConfig: the weights in tenths, the decay periods in days.  One unit
\* of `now` is one day (86400 s).
RecencyWeight == 7
QualityWeight == 3
ClipboardDecay == 1
MasterDecay == 7

\* math.exp(-k / 7) in millionths, rounded, for k = 0, 1, 2, ... sevenths;
\* below half a millionth the table ends.
ExpDecay ==
    <<
      1000000, 866878, 751477, 651439, 564718, 489542, 424373, 367879,
      318907, 276453, 239651, 207748, 180092, 156118, 135335, 117319,
      101701, 88163, 76426, 66252, 57433, 49787, 43159, 37414,
      32433, 28116, 24373, 21128, 18316, 15877, 13764, 11932,
      10343, 8966, 7773, 6738, 5841, 5063, 4389, 3805,
      3299, 2859, 2479, 2149, 1863, 1615, 1400, 1213,
      1052, 912, 790, 685, 594, 515, 446, 387,
      335, 291, 252, 219, 189, 164, 142, 123,
      107, 93, 80, 70, 60, 52, 45, 39,
      34, 30, 26, 22, 19, 17, 14, 13,
      11, 9, 8, 7, 6, 5, 5, 4,
      3, 3, 3, 2, 2, 2, 1, 1,
      1, 1, 1, 1, 1, 1
    >>

\* math.exp(k / 7) in millionths, rounded, for k = 1, 2, ...
ExpGrowth ==
    <<
      1153565, 1330712, 1535063, 1770795, 2042727, 2356418, 2718282, 3135715,
      3617251, 4172734, 4813520, 5552708, 6405409, 7389056, 8523756, 9832707,
      11342667, 13084503, 15093825, 17411708, 20085537
    >>

\* math.exp(-k / 7) in millionths, k an integer number of sevenths.
ExpSevenths(k) ==
    IF k >= Len(ExpDecay) THEN 0
    ELSE IF k >= 0 THEN ExpDecay[k + 1]
    ELSE ExpGrowth[-k]

\* SearchConfig(): the default weights.
SearchConfig == [recency_weight |-> RecencyWeight, quality_weight |-> QualityWeight]

\* A column of a result row that is present and truthy (`if master_modified:`):
\* not NULL.  A string that is no timestamp is truthy.
HasValue(item, field) ==
    /\ field \in DOMAIN item
    /\ item[field] # NullTime

\* item.get(field)
Get(item, field) == IF field \in DOMAIN item THEN item[field] ELSE NullTime

\* A parser that gives the epoch for what it cannot read.
ParseOrEpoch(val, t) == IF val \in {NullTime, Garbled} THEN 0 ELSE val

\* FuzzySearchEngine._parse_datetime(date_val): None, a string in neither
\* format and a value of another type give datetime.now(), read again inside
\* the call (microseconds after the caller's `now`: the same value at the
\* resolution of the model).
parse_datetime(val, t) ==
    IF val \in {NullTime, Garbled} THEN t ELSE val

\* FuzzySearchEngine._calculate_recency_score(item, now): master rows decay
\* with master_modified over 7 days, the others with last_copied_at over one
\* day; time_diff is used as it is, negative for a timestamp after `now`.
RecencyScore(item, t) ==
    IF HasValue(item, "master_modified")
        THEN ExpSevenths(((t - parse_datetime(item.master_modified, t)) * 7)
                             \div MasterDecay)
        ELSE ExpSevenths(((t - parse_datetime(Get(item, "last_copied_at"), t)) * 7)
                             \div ClipboardDecay)

\* score = recency_weight * recency + quality_weight * match_quality
\* (weights in tenths, recency and quality in millionths: the score is in
\* ten-millionths)
SearchScore(item, term, t) ==
    config.recency_weight * RecencyScore(item, t)
        + config.quality_weight * MatchResult(term, item.content)[2]

\* A sort that is not stable: of the pairs with the highest key the last one
\* comes first.
RECURSIVE SortedDescUnstable(_)
SortedDescUnstable(ps) ==
    IF ps = <<>>
        THEN <<>>
        ELSE LET i == CHOOSE k \in 1..Len(ps) :
                          /\ \A j \in 1..Len(ps) : ps[j][2] <= ps[k][2]
                          /\ \A j \in (k + 1)..Len(ps) : ps[j][2] < ps[k][2]
             IN  <<ps[i][1]>>
                     \o SortedDescUnstable(SubSeq(ps, 1, i - 1) \o SubSeq(ps, i + 1, Len(ps)))

\* sorted(..., key = score, reverse = True): Python's sort is stable, also
\* with reverse = True.  ps is a list of <<item, key>> pairs.
RECURSIVE SortedDesc(_)
SortedDesc(ps) ==
    IF ps = <<>>
        THEN <<>>
        ELSE LET i == CHOOSE k \in 1..Len(ps) :
                          /\ \A j \in 1..Len(ps) : ps[j][2] <= ps[k][2]
                          /\ \A j \in 1..(k - 1) : ps[j][2] < ps[k][2]
             IN  <<ps[i][1]>> \o SortedDesc(SubSeq(ps, 1, i - 1) \o SubSeq(ps, i + 1, Len(ps)))

\* The ranking without `if not is_match: continue`: every item is scored.
RankEverything(items, term, t) ==
    SortedDesc([k \in 1..Len(items) |->
        <<[search_score |-> SearchScore(items[k], term, t),
           match_quality |-> MatchResult(term, items[k].content)[2],
           recency_score |-> RecencyScore(items[k], t)] @@ items[k],
          SearchScore(items[k], term, t)>>])

\* FuzzySearchEngine.rank_search_results(items, search_term): the matching
\* items, each a copy with its search_score, highest score first
\* (min_quality_threshold is 0.0 and filters nothing).
rank_search_results(items, term, t) ==
    LET matching == SelectSeq(items, LAMBDA it : MatchResult(term, it.content)[1])
    IN  SortedDesc([k \in 1..Len(matching) |->
            <<[search_score |-> SearchScore(matching[k], term, t),
               match_quality |-> MatchResult(term, matching[k].content)[2],
               recency_score |-> RecencyScore(matching[k], t)] @@ matching[k],
              SearchScore(matching[k], term, t)>>])

\* FuzzySearchEngine.search(items, search_term, limit)
search(items, term, limit, t) ==
    IF limit > 0
        THEN SubSeq(rank_search_results(items, term, t), 1,
                    Min(limit, Len(rank_search_results(items, term, t))))
        ELSE rank_search_results(items, term, t)

\* The ranking with the scores written into the caller's dictionaries
\* instead of into copies.
ItemsScoredInPlace(items, term, t) ==
    [k \in 1..Len(items) |->
        IF MatchResult(term, items[k].content)[1]
            THEN [search_score |-> SearchScore(items[k], term, t)] @@ items[k]
            ELSE items[k]]

\* The caller's list after rank_search_results: `result_item = item.copy()`
\* takes a copy of each matching item before the scores are assigned, and
\* `sorted` builds a new list, so the list and its items are as passed.
ItemsAfterRank(items, term, t) == items

\* A call of FuzzySearchEngine.search(items, search_term, limit) on the
\* engine's arguments, at most n calls.
engine_search(n) ==
    /\ calls < n
    /\ results' = search(s_items, search_term, s_limit, now)
    /\ s_items' = ItemsAfterRank(s_items, search_term, now)
    /\ calls' = calls + 1
    /\ searched_at' = now
    /\ UNCHANGED <<tables, disk, now, ret, err, threadvars, replacevars, rows,
                   failed, search_term, m_text, matched, config,
                   s_limit, date_val, time_ago, servicevars>>

\* The day on which the engine is called, and the day after: datetime.now()
\* of two calls a day apart.
Today == 802

NextDay ==
    /\ now = Today
    /\ now' = Today + 1
    /\ UNCHANGED <<tables, disk, ret, err, threadvars, replacevars, queryvars,
                   servicevars>>

\* Timestamps of the items handed to the engine: absent, unparsable, a day
\* after `now` (clock skew), now, one and two days old, and more than two
\* years old (math.exp gives 0.0 for a clipboard item of that age).
ItemTimes ==
    {NullTime, Garbled, Today + 1, Today, Today - 1, Today - 2, Today - 800,
     Today - 801}

\* Rows of the history and of the master items as the engine reads them:
\* content and the timestamp column of their kind.
ClipboardCandidates ==
    [content : {<<"a", "b">>}, last_copied_at : ItemTimes]
        \cup [content : {<<"a", "X", "b">>, <<"b">>},
              last_copied_at : {Today, Today - 1}]

MasterCandidates == [content : {<<"a", "b">>}, master_modified : ItemTimes]

\* Lists of at most MaxItems rows, each with its id.
ItemsLists ==
    {[k \in 1..Len(l) |-> [id |-> k] @@ l[k]] :
        l \in Strings(ClipboardCandidates \cup MasterCandidates, MaxItems)}

\* Queries typed into the search field.
RankQueries == {<<>>, <<"a", "b">>}

\* SearchConfig objects: the default, the one of the module's example
\* (0.6, 0.4) and one whose weights do not sum to 1.0 (1.0, 1.0).
Configs ==
    {SearchConfig,
     [recency_weight |-> 6, quality_weight |-> 4],
     [recency_weight |-> 10, quality_weight |-> 10]}

\* ---------------------------------------------------------- time ago
\* f"{n} {unit}{'s' if n != 1 else ''} ago", as its parts.
Ago(n, unit) == <<n, unit, IF n # 1 THEN "s" ELSE "", " ago">>

\* Buckets without the singular forms and without "Yesterday".
TimeAgoPlain(val, t) ==
    IF val = NullTime THEN <<"Unknown">>
    ELSE LET seconds == t - parse_datetime(val, t)
         IN  IF seconds < 60 THEN <<"Just now">>
             ELSE IF seconds < 3600 THEN <<seconds \div 60, " min", "s", " ago">>
             ELSE IF seconds < 86400 THEN <<seconds \div 3600, " hour", "s", " ago">>
             ELSE IF seconds \div 86400 < 7 THEN <<seconds \div 86400, " days ago">>
             ELSE IF seconds \div 86400 < 30
                 THEN <<(seconds \div 86400) \div 7, " week", "s", " ago">>
             ELSE <<parse_datetime(val, t) \div 86400, "%b %d, %Y">>

\* FuzzySearchEngine.get_time_ago_string(date_val), with the clock and the
\* timestamps in seconds.  The string is given by its parts; the date of
\* strftime("%b %d, %Y") by the number of its day.
get_time_ago_string(val, t) ==
    IF val = NullTime THEN <<"Unknown">>
    ELSE LET dt == parse_datetime(val, t)
             seconds == t - dt
             days == seconds \div 86400
         IN  IF seconds < 60 THEN <<"Just now">>
             ELSE IF seconds < 3600 THEN Ago(seconds \div 60, " min")
             ELSE IF seconds < 86400 THEN Ago(seconds \div 3600, " hour")
             ELSE IF days = 1 THEN <<"Yesterday">>
             ELSE IF days < 7 THEN <<days, " days ago">>
             ELSE IF days < 30 THEN Ago(days \div 7, " week")
             ELSE <<dt \div 86400, "%b %d, %Y">>

\* A call of get_time_ago_string on the engine's date_val.
time_ago_call ==
    /\ time_ago = NotCalled
    /\ time_ago' = get_time_ago_string(date_val, now)
    /\ UNCHANGED <<tables, disk, now, ret, err, threadvars, replacevars, rows,
                   failed, search_term, m_text, matched, config, s_items,
                   s_limit, results, calls, searched_at, date_val, servicevars>>

\* datetime.now() of the call, in seconds.
ClockSeconds == 4000000

\* Ages in seconds at which the wording changes, each with the second
\* before and after it, and the ages of the documented examples.
AgeBoundaries ==
    {0, 60, 120, 3600, 7200, 86400, 172800, 259200, 518400, 604800, 1209600,
     1814400, 2419200, 2592000}

Ages ==
    UNION {{b - 1, b, b + 1} : b \in AgeBoundaries}
        \cup {45, 90, 300, 3700, 90000, 432000, 864000, 3456000}

\* Values handed to get_time_ago_string: None, an unparsable string, and
\* timestamps of every age.
DateVals == {NullTime, Garbled} \cup {ClockSeconds - a : a \in Ages}

\* --------------------------------------------------- the window's queries
\* all_items.sort(key=lambda x: x.get('timestamp', 0), reverse=True)
TimestampKey(item) == IF "timestamp" \in DOMAIN item THEN item.timestamp ELSE 0

\* recent + master, sorted by the 'timestamp' key.
RecentAndMasters(max_items) ==
    LET all_items == RecentItems(max_items) \o AllMasterItems
    IN  SortedDesc([k \in 1..Len(all_items) |->
                        <<all_items[k], TimestampKey(all_items[k])>>])

\* ShiftPasteApp.show_main_window(), max_items read from the configuration.
show_main_window(max_items) ==
    /\ rows' = RecentAndMasters(max_items)
    /\ failed' = FALSE
    /\ err' = "none"
    /\ UNCHANGED <<tables, disk, now, ret, threadvars, replacevars, search_term,
                   m_text, matched, enginevars,
                   servicevars>>

\* update_results(all_items[:20])
ResultLimit == 20

\* ShiftPasteApp._on_search_changed(query): a query that is not blank goes to
\* self.db.search_all_items, which Database does not define (AttributeError);
\* a blank one lists the recent items and the master items.
on_search_changed(query, max_items) ==
    /\ IF IsWhitespaceOnly(query)
          THEN /\ rows' = Limit(RecentAndMasters(max_items), ResultLimit)
               /\ err' = "none"
          ELSE /\ rows' = rows
               /\ err' = "AttributeError"
    /\ failed' = FALSE
    /\ UNCHANGED <<tables, disk, now, ret, threadvars, replacevars, search_term,
                   m_text, matched, enginevars,
                   servicevars>>

\* ------------------------------------------------------- ClipboardMonitor
\* recent = self.db.get_recent_items(limit=max_items + 100)
TrimLookahead == 100

\* EXCLUDED_PROCESSES['Windows']
EXCLUDED_PROCESSES ==
    {"KeePass.exe", "1Password.exe", "Bitwarden.exe", "LastPass.exe",
     "KeePassXC.exe", "Dashlane.exe", "RoboForm.exe", "Keeper.exe",
     "NordPass.exe", "Enpass.exe"}

\* ClipboardMonitor.is_password_manager_active(): the name of the focused
\* process holds the name of an excluded one.  The process names of the
\* model are whole names, so the test is membership; no name ("") is False.
is_password_manager_active == focus # "" /\ focus \in EXCLUDED_PROCESSES

\* The user copies text c in the application that has the focus: what
\* pyperclip.paste() returns from then on.
UserCopy(c) ==
    /\ clipboard' = [text |-> c, source |-> focus]
    /\ UNCHANGED <<focus, running, last_hash, ignore_next, signals, m_failed, paste_pc>>
    /\ UNCHANGED <<tables, disk, now, ret, err, threadvars, replacevars, queryvars,
                   watchvars>>

\* The user brings the window of process p to the foreground: what
\* get_active_process_name() returns from then on.
FocusChange(p) ==
    /\ focus # p
    /\ focus' = p
    /\ UNCHANGED <<clipboard, running, last_hash, ignore_next, signals, m_failed,
                   paste_pc>>
    /\ UNCHANGED <<tables, disk, now, ret, err, threadvars, replacevars, queryvars,
                   watchvars>>

\* The loop without `try ... except Exception` and with a read that raises:
\* the first failure ends the thread.
RunUntilFailure(read_fails) ==
    /\ running
    /\ running' = ~read_fails
    /\ m_failed' = read_fails
    /\ UNCHANGED <<clipboard, focus, last_hash, ignore_next, signals, paste_pc>>
    /\ UNCHANGED <<tables, disk, now, ret, err, threadvars, replacevars, queryvars,
                   watchvars>>

\* One iteration of the `while self._running` loop of ClipboardMonitor.run.
\* read_fails: pyperclip.paste() raises, and _get_clipboard_text returns
\* None.  The signal is queued for the main thread (Qt.QueuedConnection).
run_iteration(read_fails) ==
    /\ running
    /\ IF is_password_manager_active
          THEN /\ m_failed' = FALSE
               /\ UNCHANGED <<last_hash, ignore_next, signals>>
          ELSE IF read_fails
          THEN /\ m_failed' = TRUE
               /\ UNCHANGED <<last_hash, ignore_next, signals>>
          ELSE /\ m_failed' = FALSE
               /\ IF clipboard.text = <<>> \/ Hash(clipboard.text) = last_hash
                     THEN UNCHANGED <<last_hash, ignore_next, signals>>
                     ELSE /\ IF ignore_next
                                THEN /\ ignore_next' = FALSE
                                     /\ UNCHANGED signals
                                ELSE /\ Len(signals) < MaxQueue
                                     /\ signals' = Append(signals, clipboard.text)
                                     /\ UNCHANGED ignore_next
                          /\ last_hash' = Hash(clipboard.text)
    /\ UNCHANGED <<clipboard, focus, running, paste_pc>>
    /\ UNCHANGED <<tables, disk, now, ret, err, threadvars, replacevars, queryvars,
                   watchvars>>

\* ClipboardMonitor.stop()
stop ==
    /\ running
    /\ running' = FALSE
    /\ UNCHANGED <<clipboard, focus, last_hash, ignore_next, signals, m_failed,
                   paste_pc>>
    /\ UNCHANGED <<tables, disk, now, ret, err, threadvars, replacevars, queryvars,
                   watchvars>>

\* ShiftPasteApp._on_item_selected(item), up to pyperclip.copy(content): the
\* item is a row of the history shown in the window.
pyperclip_copy(c) ==
    /\ paste_pc = "idle"
    /\ \E r \in clipboard_items : r.content = c
    /\ clipboard' = [text |-> c, source |-> "ShiftPaste"]
    /\ paste_pc' = "copied"
    /\ UNCHANGED <<focus, running, last_hash, ignore_next, signals, m_failed>>
    /\ UNCHANGED <<tables, disk, now, ret, err, threadvars, replacevars, queryvars,
                   watchvars>>

\* ... and from self.clipboard_monitor.ignore_next_change() on.
ignore_next_change ==
    /\ paste_pc = "copied"
    /\ ignore_next' = TRUE
    /\ paste_pc' = "idle"
    /\ UNCHANGED <<clipboard, focus, running, last_hash, signals, m_failed>>
    /\ UNCHANGED <<tables, disk, now, ret, err, threadvars, replacevars, queryvars,
                   watchvars>>

\* ShiftPasteApp._on_clipboard_changed(content), called by the event loop
\* of the main thread with the oldest queued signal: add_clipboard_item, then
\* the rows of get_recent_items(max_items + 100) after the first max_items
\* are deleted.  A sqlite3.Error of add_clipboard_item (fault) leaves the
\* slot as an exception; the event loop goes on.
on_clipboard_changed(fault, max_items) ==
    /\ signals # <<>>
    /\ signals' = Tail(signals)
    /\ UNCHANGED <<master_files, file_seq, master_items, item_seq>>
    /\ LET content == Head(signals)
           h == Hash(content)
           known == UniqueViolation(clipboard_items, h)
           added == IF known
                       THEN TouchRows(clipboard_items, h, now)
                       ELSE clipboard_items \cup {NewClipRow(clip_seq + 1, content, now)}
           recent == Limit(ByRecency(added), max_items + TrimLookahead)
           items_to_delete == {recent[k].id : k \in (max_items + 1)..Len(recent)}
       IN  IF fault
              THEN /\ StatementFails
                   /\ UNCHANGED <<clipboard_items, clip_seq, disk>>
              ELSE /\ IF known
                         THEN /\ \A r \in clipboard_items :
                                    r.content_hash = h => r.copy_count < MaxCount
                              /\ UNCHANGED clip_seq
                              /\ ret' = SelectIdByHash(added, h)
                         ELSE /\ clip_seq < MaxId
                              /\ clip_seq' = clip_seq + 1
                              /\ ret' = clip_seq + 1
                   /\ clipboard_items' = {r \in added : r.id \notin items_to_delete}
                   /\ err' = "none"
                   /\ Commit
    /\ UNCHANGED <<clipboard, focus, running, last_hash, ignore_next, m_failed,
                   paste_pc>>
    /\ UNCHANGED <<now, threadvars, replacevars, queryvars, watchvars>>

\* ---------------------------------------- MasterManager and its polling
\* What rebuild_index(file_path) makes of the row of a registered file whose
\* workbook exists: load_workbook raises on a corrupt workbook and
\* _mark_file_error disables the file; a readable workbook (its first column
\* is empty in this model) is stored by update_master_items, which stamps
\* last_modified, and the error is cleared and the file enabled.
ReindexRow(f, t) ==
    IF workbooks[f.file_path].state = "corrupt"
        THEN [f EXCEPT !.last_error = "load_error", !.is_enabled = 0]
        ELSE [f EXCEPT !.last_modified = t, !.last_error = NoError, !.is_enabled = 1]

\* MasterManager._scan_master_directory: add_master_file for every workbook
\* of the directory; a path that has a row keeps it.  The result is
\* <<master_files, file_seq>>.
RECURSIVE ScanDirectory(_, _, _)
ScanDirectory(mf, seq, ps) ==
    IF ps = {}
        THEN <<mf, seq>>
        ELSE LET p == CHOOSE x \in ps : TRUE IN
             IF FileIdOf(mf, p) = -1
                 THEN ScanDirectory(mf \cup {NewFileRow(seq + 1, p)}, seq + 1, ps \ {p})
                 ELSE ScanDirectory(mf, seq, ps \ {p})

\* The user saves workbook p, readable or not: its modification time grows.
modify_file(p, state) ==
    /\ workbooks[p].mtime < MaxMtime
    /\ workbooks' = [workbooks EXCEPT ![p] = [mtime |-> @.mtime + 1, state |-> state]]
    /\ UNCHANGED <<watch_paths, last_mtimes, monitorvars>>
    /\ UNCHANGED <<tables, disk, now, ret, err, threadvars, replacevars, queryvars>>

\* The body of `for path in paths` of MasterPollingThread.run for path p;
\* file_changed is connected to MasterManager.rebuild_index.
poll_path(p) ==
    /\ p \in watch_paths
    /\ IF last_mtimes[p] = -1
          THEN /\ last_mtimes' = [last_mtimes EXCEPT ![p] = workbooks[p].mtime]
               /\ UNCHANGED <<tables, disk>>
          ELSE IF workbooks[p].mtime > last_mtimes[p]
          THEN /\ last_mtimes' = [last_mtimes EXCEPT ![p] = workbooks[p].mtime]
               /\ master_files' =
                      {IF f.file_path = p THEN ReindexRow(f, now) ELSE f : f \in master_files}
               /\ master_items' =
                      {i \in master_items :
                          \A f \in master_files' :
                              (f.id = i.master_file_id /\ f.file_path = p)
                                  => f.is_enabled = 0}
               /\ UNCHANGED <<clipboard_items, clip_seq, file_seq, item_seq>>
               /\ Commit
          ELSE UNCHANGED <<last_mtimes, tables, disk>>
    /\ UNCHANGED <<watch_paths, workbooks, monitorvars>>
    /\ UNCHANGED <<now, ret, err, threadvars, replacevars, queryvars>>

\* MasterManager.refresh_watcher(): update_paths(_get_enabled_paths()).
refresh_watcher ==
    /\ watch_paths' = {f.file_path : f \in {g \in master_files : g.is_enabled = 1}}
    /\ last_mtimes' = [p \in Paths |-> IF p \in watch_paths' THEN last_mtimes[p] ELSE -1]
    /\ UNCHANGED <<workbooks, monitorvars>>
    /\ UNCHANGED <<tables, disk, now, ret, err, threadvars, replacevars, queryvars>>

\* The application starts on the database it left: MasterManager.__init__
\* scans the directory, starts a new polling thread on the enabled paths
\* and runs index_all, a rebuild_index of every enabled path.
master_manager_init ==
    /\ LET scanned == ScanDirectory(master_files, file_seq, Paths)
           enabled == {f \in scanned[1] : f.is_enabled = 1}
       IN  /\ scanned[2] <= MaxFileId
           /\ file_seq' = scanned[2]
           /\ watch_paths' = {f.file_path : f \in enabled}
           /\ last_mtimes' = [p \in Paths |-> -1]
           /\ master_files' =
                  {IF f \in enabled THEN ReindexRow(f, now) ELSE f : f \in scanned[1]}
           /\ master_items' =
                  {i \in master_items :
                      \A f \in enabled :
                          f.id = i.master_file_id
                              => workbooks[f.file_path].state = "corrupt"}
    /\ UNCHANGED <<clipboard_items, clip_seq, item_seq>>
    /\ Commit
    /\ UNCHANGED <<workbooks, monitorvars>>
    /\ UNCHANGED <<now, ret, err, threadvars, replacevars, queryvars>>

\* The state of the services after ShiftPasteApp.__init__: the monitor
\* thread is in its loop and has seen nothing, the clipboard is empty, no
\* workbook is watched yet.  An absent entry of _last_mtimes is -1.
InitServices ==
    /\ clipboard = [text |-> <<>>, source |-> ""]
    /\ focus = "notepad.exe"
    /\ running = TRUE
    /\ last_hash = <<>>
    /\ ignore_next = FALSE
    /\ signals = <<>>
    /\ m_failed = FALSE
    /\ paste_pc = "idle"
    /\ watch_paths = {}
    /\ last_mtimes = [p \in Paths |-> -1]
    /\ workbooks = [p \in Paths |-> [mtime |-> 0, state |-> "ok"]]

\* ------------------------------------------------------------------- Init
\* The state after Database.__init__ on a fresh file: empty tables.
InitStore ==
    /\ clipboard_items = {}
    /\ clip_seq = 0
    /\ master_files = {}
    /\ file_seq = 0
    /\ master_items = {}
    /\ item_seq = 0
    /\ disk = View
    /\ ret = 0
    /\ err = "none"
    /\ pc = [t \in Threads |-> "idle"]
    /\ arg = [t \in Threads |-> <<>>]
    /\ t_now = [t \in Threads |-> 0]
    /\ item_id = [t \in Threads |-> 0]
    /\ mutated = [t \in Threads |-> 0]
    /\ raised = [t \in Threads |-> "none"]
    /\ r_pc = "idle"
    /\ r_file = 0
    /\ r_items = <<>>
    /\ r_i = 0
    /\ r_old = {}
    /\ r_failed = FALSE
    /\ seen = {}
    /\ rows = <<>>
    /\ failed = FALSE

\* FuzzySearchEngine() as ShiftPasteApp.__init__ builds it, before any call.
InitEngine ==
    /\ config = SearchConfig
    /\ s_items = <<>>
    /\ s_limit = 0
    /\ results = <<>>
    /\ calls = 0
    /\ searched_at = NullTime
    /\ date_val = NullTime
    /\ time_ago = NotCalled

Init ==
    /\ InitStore
    /\ InitServices
    /\ InitEngine
    /\ now = 0
    /\ search_term = <<>>
    /\ m_text = <<>>
    /\ matched = NotCalled

\* The matcher is a pure function: every query and text is an input.
InitMatch ==
    /\ InitStore
    /\ InitServices
    /\ InitEngine
    /\ now = 0
    /\ search_term \in Queries
    /\ m_text \in Texts
    /\ matched = NotCalled

\* --------------------------------------------- the store, calls in sequence
Next ==
    \/ \E c \in Contents, f \in Faults : add_clipboard_item(c, f)
    \/ \E id \in 1..MaxId : delete_clipboard_item(id)
    \/ clear_clipboard_history
    \/ Tick

Spec == Init /\ [][Next]_vars

\* ------------------- concurrent add_clipboard_item calls on the connection
NextRace ==
    \/ ThreadStep
    \/ Tick

SpecRace == Init /\ [][NextRace]_vars

\* ------------- the same, with the UI deleting and clearing between statements
NextConc ==
    \/ ThreadStep
    \/ \E id \in 1..MaxId : delete_clipboard_item(id)
    \/ clear_clipboard_history
    \/ Tick

SpecConc == Init /\ [][NextConc]_vars

\* ----------------------------------- the master index, calls in sequence
NextMaster ==
    \/ \E p \in Paths : add_master_file(p)
    \/ \E p \in Paths, o \in FailureOutcomes : rebuild_index(p, o, <<>>)
    \/ \E p \in Paths, its \in ItemLists : rebuild_index(p, "ok", its)
    \/ \E id \in 1..MaxFileId : delete_master_file(id)
    \/ Tick

SpecMaster == Init /\ [][NextMaster]_vars

\* ------- a reindex running while other threads read and write the store
NextReplace ==
    \/ add_master_file("p1")
    \/ \E id \in 1..MaxFileId, its \in ItemLists : ReplaceBegin(id, its)
    \/ ReplaceDelete
    \/ ReplaceInsert
    \/ ReplaceStamp
    \/ ReplaceCommit
    \/ ReplaceFail
    \/ get_all_master_items
    \/ add_clipboard_item(<<"a">>, "none")

SpecReplace == Init /\ [][NextReplace]_vars

\* ------------------------------- the store and the queries of the window
\* Texts copied to the clipboard and queries typed into the search field.
StoreTexts == {<<"a">>, <<"Y">>}

SearchQueries == {<<>>, <<"y">>}

NextQuery ==
    \/ \E c \in StoreTexts : add_clipboard_item(c, "none")
    \/ \E id \in 1..MaxId : delete_clipboard_item(id)
    \/ Tick
    \/ \E l \in 0..MaxLimit, f \in BOOLEAN : get_recent_items(l, f)
    \/ \E q \in SearchQueries, f \in BOOLEAN : search_clipboard(q, 1, f)
    \/ \E id \in 1..MaxId : DeleteFails(id)
    \/ ClearFails

SpecQuery == Init /\ [][NextQuery]_vars

\* ------------------- the window: history and master items in one result
NextWindow ==
    \/ \E c \in StoreTexts : add_clipboard_item(c, "none")
    \/ add_master_file("p1")
    \/ rebuild_index("p1", "ok", << <<<<"x">>, 1>>, <<<<"y">>, 2>> >>)
    \/ Tick
    \/ \E q \in SearchQueries, l \in 1..MaxLimit : search_clipboard(q, l, FALSE)
    \/ \E q \in SearchQueries, l \in 1..MaxLimit : search_masters(q, l, FALSE)
    \/ \E m \in 0..MaxLimit : show_main_window(m)
    \/ \E q \in SearchQueries, m \in 0..MaxLimit : on_search_changed(q, m)

SpecWindow == Init /\ [][NextWindow]_vars

\* ------------------------- clearing the history next to the master index
NextClear ==
    \/ \E c \in StoreTexts : add_clipboard_item(c, "none")
    \/ clear_clipboard_history
    \/ add_master_file("p1")
    \/ \E its \in ItemLists : rebuild_index("p1", "ok", its)
    \/ rebuild_index("p1", "load_error", <<>>)
    \/ Tick

SpecClear == Init /\ [][NextClear]_vars

\* ------------------------------------------------ the matcher on its inputs
NextMatch == fuzzy_left_to_right_match

SpecMatch == InitMatch /\ [][NextMatch]_vars

\* ------------------------------------------------ the ranking on its inputs
\* search is a pure function of the engine's configuration, the items, the
\* query, the limit and datetime.now(): every combination is an input.
InitRank ==
    /\ InitStore
    /\ InitServices
    /\ now = Today
    /\ search_term \in RankQueries
    /\ m_text = <<>>
    /\ matched = NotCalled
    /\ config \in Configs
    /\ s_items \in ItemsLists
    /\ s_limit \in 0..MaxLimit
    /\ results = <<>>
    /\ calls = 0
    /\ searched_at = NullTime
    /\ date_val = NullTime
    /\ time_ago = NotCalled

NextRank == engine_search(1)

SpecRank == InitRank /\ [][NextRank]_vars

\* --------------------------------------------- time ago on its inputs
InitTimeAgo ==
    /\ InitStore
    /\ InitServices
    /\ now = ClockSeconds
    /\ search_term = <<>>
    /\ m_text = <<>>
    /\ matched = NotCalled
    /\ config = SearchConfig
    /\ s_items = <<>>
    /\ s_limit = 0
    /\ results = <<>>
    /\ calls = 0
    /\ searched_at = NullTime
    /\ date_val \in DateVals
    /\ time_ago = NotCalled

NextTimeAgo == time_ago_call

SpecTimeAgo == InitTimeAgo /\ [][NextTimeAgo]_vars

\* ------------------- the same search repeated, now and a day later
NextRepeat ==
    \/ engine_search(MaxCalls)
    \/ NextDay

SpecRepeat == InitRank /\ [][NextRepeat]_vars

\* ------------------- searches of the store and of the engine, in any order
\* The engine is given a list of MaxItems history rows copied today; the
\* store is filled and queried next to it.
InitSearch ==
    /\ InitStore
    /\ InitServices
    /\ now = Today
    /\ search_term \in RankQueries
    /\ m_text = <<>>
    /\ matched = NotCalled
    /\ config = SearchConfig
    /\ s_items \in {its \in ItemsLists :
                       /\ Len(its) = MaxItems
                       /\ \A k \in 1..Len(its) :
                              /\ "last_copied_at" \in DOMAIN its[k]
                              /\ its[k].last_copied_at = Today
                              /\ its[k].content \in {<<"a", "b">>, <<"b">>}}
    /\ s_limit = 0
    /\ results = <<>>
    /\ calls = 0
    /\ searched_at = NullTime
    /\ date_val = NullTime
    /\ time_ago = NotCalled

NextSearch ==
    \/ \E c \in StoreTexts : add_clipboard_item(c, "none")
    \/ add_master_file("p1")
    \/ rebuild_index("p1", "ok", << <<<<"x">>, 1>>, <<<<"y">>, 2>> >>)
    \/ \E q \in SearchQueries, l \in 1..MaxLimit : search_clipboard(q, l, FALSE)
    \/ \E q \in SearchQueries, l \in 1..MaxLimit : search_masters(q, l, FALSE)
    \/ engine_search(MaxCalls)

SpecSearch == InitSearch /\ [][NextSearch]_vars

\* ------------------------- the clipboard monitor next to the main thread
\* The user copies and changes the focus, the monitor polls, the main thread
\* records what the monitor emitted, the user pastes an item of the history.
NextMonitor ==
    \/ \E c \in StoreTexts : UserCopy(c)
    \/ \E p \in {"KeePass.exe", "notepad.exe"} : FocusChange(p)
    \/ \E f \in BOOLEAN : run_iteration(f)
    \/ \E f \in BOOLEAN : on_clipboard_changed(f, MaxKept + 1)
    \/ \E c \in StoreTexts : pyperclip_copy(c)
    \/ ignore_next_change
    \/ stop

SpecMonitor == Init /\ [][NextMonitor]_vars

\* ------------------------------ the polling loop and its failures
NextPoll ==
    \/ \E c \in StoreTexts : UserCopy(c)
    \/ \E p \in {"KeePass.exe", "notepad.exe"} : FocusChange(p)
    \/ \E f \in BOOLEAN : run_iteration(f)
    \/ \E f \in BOOLEAN : on_clipboard_changed(f, MaxKept + 1)
    \/ stop

\* The loop of the monitor thread runs an iteration every poll interval
\* while _running is set, and its read of the clipboard does not fail for
\* ever; the event loop of the main thread delivers every queued signal.
FairMonitor ==
    /\ Init
    /\ [][NextPoll]_vars
    /\ WF_vars(run_iteration(FALSE))
    /\ WF_vars(\E f \in BOOLEAN : on_clipboard_changed(f, MaxKept + 1))

\* --------------------------------------- the history under trimming
NextTrim ==
    \/ \E c \in StoreTexts : UserCopy(c)
    \/ run_iteration(FALSE)
    \/ \E m \in 1..MaxKept + 1 : on_clipboard_changed(FALSE, m)
    \/ Tick

SpecTrim == Init /\ [][NextTrim]_vars

\* ------------------------- the workbooks, their watcher and the index
\* The polling thread visits every watched path once a second.
NextWatch ==
    \/ master_manager_init
    \/ \E p \in Paths, st \in {"ok", "corrupt"} : modify_file(p, st)
    \/ \E p \in Paths : poll_path(p)
    \/ refresh_watcher

FairWatch ==
    /\ Init
    /\ [][NextWatch]_vars
    /\ \A p \in Paths : WF_vars(poll_path(p))

\* ------------------------------------------------------ helpers for claims
RowsOf(items, content) == {r \in items : r.content = content}

Quiescent == \A t \in Threads : pc[t] \in {"idle", "done"}

\* Threads whose call for content c went through (did not raise).
Observed(c) == {t \in Threads : pc[t] = "done" /\ arg[t] = c /\ raised[t] = "none"}

\* ---------------------------------------------------------------- claims
\* C1: the history holds at most one row per distinct content (content_hash
\* is unique across rows) after any sequence of record, delete and clear
\* calls; recording a content a second time leaves exactly one row for it,
\* with touch_count 2, and recording a content that has no row adds a row.
C1_OneRowPerContent ==
    /\ [](\A r1, r2 \in clipboard_items :
             (r1.content = r2.content \/ r1.content_hash = r2.content_hash) => r1 = r2)
    /\ [][\A c \in Contents \ {<<>>} :
             add_clipboard_item(c, "none") =>
                 /\ Cardinality(RowsOf(clipboard_items', c)) = 1
                 /\ (\E r \in RowsOf(clipboard_items, c) : r.copy_count = 1)
                        => (\A r \in RowsOf(clipboard_items', c) : r.copy_count = 2)
                 /\ RowsOf(clipboard_items, c) = {}
                        => Cardinality(clipboard_items') = Cardinality(clipboard_items) + 1
         ]_vars

\* C1 witness: one content recorded twice and a second, distinct content
\* recorded next to it.
C1_Witness ==
    \E r1, r2 \in clipboard_items :
        r1.copy_count = 2 /\ r2.content # r1.content /\ r2.id > r1.id

\* C2: when concurrent record() calls for the same content have all
\* returned, the store holds exactly one row for that content, its
\* touch_count is the number of those calls, and none of them ended with
\* the duplicate-insert IntegrityError.
C2_ConcurrentDedup ==
    Quiescent =>
        /\ \A t \in Threads : raised[t] \in {"none", "OperationalError"}
        /\ \A c \in Contents \ {<<>>} :
              IF Observed(c) = {}
                 THEN RowsOf(clipboard_items, c) = {}
                 ELSE /\ Cardinality(RowsOf(clipboard_items, c)) = 1
                      /\ \A r \in RowsOf(clipboard_items, c) :
                            r.copy_count = Cardinality(Observed(c))

\* C2 witness: the race itself.  One thread has inserted the row and not yet
\* committed; another thread's INSERT of the same content hit the UNIQUE
\* constraint and its UPDATE has counted the second observation.
C2_Witness ==
    \E t1, t2 \in Threads :
        /\ t1 # t2
        /\ arg[t1] = arg[t2]
        /\ pc[t1] = "commit" /\ item_id[t1] > 0
        /\ pc[t2] = "select"
        /\ disk.clipboard_items = {}
        /\ \E r \in clipboard_items : r.content = arg[t1] /\ r.copy_count = 2

\* C3: when replace(source_id, items) has failed, the items stored for the
\* source are exactly the snapshot stored before the call, also when another
\* operation on the shared connection committed while it ran.
C3_FailedReplaceKeepsSnapshot ==
    (r_failed /\ r_pc = "idle") => Snapshot(master_items, r_file) = r_old

\* C4: an all_enabled() read that runs while replace() is in progress
\* returns, for the source being replaced, all items of the old snapshot or
\* all items of the new one.
C4_ReaderSeesOldOrNew ==
    [][(get_all_master_items /\ r_pc # "idle") =>
          Snapshot(seen', r_file) \in {r_old, PairsOf(r_items)}
      ]_vars

\* C5: a reindex that fails, for whatever reason, leaves the source with a
\* recorded error and disabled; and a source that has an error keeps it, and
\* stays disabled, through every step that is not a successful reindex of it.
C5_FailureIsSticky ==
    /\ [][\A p \in Paths, o \in FailureOutcomes :
             rebuild_index(p, o, <<>>) =>
                 \A f \in master_files' :
                     f.file_path = p => (f.last_error # NoError /\ f.is_enabled = 0)
         ]_vars
    /\ [][\A f \in master_files : \A g \in master_files' :
             (/\ g.id = f.id
              /\ f.last_error # NoError
              /\ (g.last_error = NoError \/ g.is_enabled = 1))
                 => \E its \in ItemLists : rebuild_index(f.file_path, "ok", its)
         ]_vars

C7_TouchCount ==
    /\ [][\A c \in Contents \ {<<>>} :
             add_clipboard_item(c, "none") =>
                 /\ \A r \in RowsOf(clipboard_items, c) :
                       \E q \in clipboard_items' :
                           /\ q.id = r.id
                           /\ q.last_copied_at = now
                           /\ q.copy_count = r.copy_count + 1
                 /\ RowsOf(clipboard_items, c) = {}
                       => \E q \in clipboard_items' :
                              /\ q.content = c
                              /\ q.copy_count = 1
                              /\ q.last_copied_at = now
         ]_vars
    /\ [][\A r \in clipboard_items : \A q \in clipboard_items' :
             (q.id = r.id /\ q.copy_count # r.copy_count)
                 => add_clipboard_item(r.content, "none")
         ]_vars

\* C7 witness: a row that was recorded three times, the last time after its
\* creation.
C7_Witness ==
    \E r \in clipboard_items : r.copy_count = 3 /\ r.last_copied_at > r.created_at

\* C8: a re-observation returns a result that differs from a new insertion,
\* so that the caller's test `item_id > 0` ("not a duplicate") is false for
\* a duplicate and true for a new row.
C8_ResultTellsNew ==
    [][\A c \in Contents \ {<<>>} :
          add_clipboard_item(c, "none") =>
              IF RowsOf(clipboard_items, c) = {} THEN ret' > 0 ELSE ~(ret' > 0)
      ]_vars

\* C9: record(content) with empty or whitespace-only content changes no
\* table and returns the no-op result -1.
C9_BlankIsNoOp ==
    [][\A c \in Contents :
          (IsWhitespaceOnly(c) /\ add_clipboard_item(c, "none")) =>
              (ret' = -1 /\ UNCHANGED tables)
      ]_vars

C11_StoreErrorSurfaced ==
    [][(\/ \E l \in 0..MaxLimit : get_recent_items(l, TRUE)
        \/ \E q \in SearchQueries : search_clipboard(q, 1, TRUE)
        \/ \E id \in 1..MaxId : DeleteFails(id)
        \/ ClearFails)
            => err' # "none"
      ]_vars

\* Rows of a result list, by id.
IdsOf(rs) == {rs[k].id : k \in 1..Len(rs)}

\* C12: the candidate pre-filter is conservative: every history row, and
\* every item of an enabled master source, that the fuzzy match accepts for
\* the query is in the list search_clipboard / search_masters returns.
C12_PrefilterConservative ==
    [][\A q \in SearchQueries, l \in 1..MaxLimit :
          /\ search_clipboard(q, l, FALSE) =>
                 \A r \in clipboard_items :
                     MatchResult(q, r.content)[1] => r.id \in IdsOf(rows')
          /\ search_masters(q, l, FALSE) =>
                 \A i \in AllEnabled(master_files, master_items) :
                     MatchResult(q, i.content)[1] => i.id \in IdsOf(rows')
      ]_vars

\* Every history row and every item of an enabled master source.
AllCandidates ==
    WithSource(ByRecency(clipboard_items), "clipboard") \o AllMasterItems

\* rs holds the `limit` best of the candidates that match the query: it has
\* min(limit, number of matching candidates) of them and none that is left
\* out has a higher score than one that is in.
IsTopOfMerged(rs, term, limit, t) ==
    LET matching == {c \in {AllCandidates[k] : k \in 1..Len(AllCandidates)} :
                         MatchResult(term, c.content)[1]}
        inside == {rs[k] : k \in 1..Len(rs)}
    IN  /\ inside \subseteq matching
        /\ Len(rs) = Min(limit, Cardinality(matching))
        /\ \A c \in matching \ inside, k \in inside :
               SearchScore(c, term, t) <= SearchScore(k, term, t)

\* C13: the limit of a search is applied after merging: the result is the
\* first `limit` items of the ranking over all matching history and master
\* candidates; no limit applied to the history or to the master items
\* before merging loses an item of the global top `limit`.
C13_MergeThenLimit ==
    [][\A m \in 1..MaxLimit :
          /\ show_main_window(m) => IsTopOfMerged(rows', <<>>, m, now)
          /\ \A q \in {x \in SearchQueries : IsWhitespaceOnly(x)} :
                 on_search_changed(q, m) => IsTopOfMerged(rows', q, ResultLimit, now)
      ]_vars

\* The history by last_copied_at descending, ties broken by id descending.
RECURSIVE ByRecencyThenIdDesc(_)
ByRecencyThenIdDesc(items) ==
    IF items = {}
        THEN <<>>
        ELSE LET first == CHOOSE r \in items : \A o \in items :
                              \/ o.last_copied_at < r.last_copied_at
                              \/ (o.last_copied_at = r.last_copied_at /\ o.id <= r.id)
             IN  <<first>> \o ByRecencyThenIdDesc(items \ {first})

\* C14: recent(limit) is the first `limit` rows of the history by
\* last_copied_at descending, ties by id descending; recent(0) is empty.
C14_RecentOrder ==
    [][\A l \in 0..MaxLimit :
          get_recent_items(l, FALSE) =>
              /\ rows' = WithSource(Limit(ByRecencyThenIdDesc(clipboard_items), l),
                                     "clipboard")
              /\ (l = 0 => rows' = <<>>)
      ]_vars

\* C15: delete(id) is idempotent: for an id that no row has, every row of the
\* store stays as it is and no error is raised; after delete(id) a second
\* delete(id) changes nothing.
C15_DeleteIdempotent ==
    [][\A id \in 1..MaxId :
          delete_clipboard_item(id) =>
              /\ err' = "none"
              /\ (~\E r \in clipboard_items : r.id = id) =>
                     /\ clipboard_items' = clipboard_items
                     /\ UNCHANGED <<master_files, master_items, disk>>
              /\ \A r \in clipboard_items : r.id # id => r \in clipboard_items'
              /\ ~\E r \in clipboard_items' : r.id = id
              /\ DeleteById(clipboard_items', id) = clipboard_items'
      ]_vars

\* An id was deleted and another row is still stored.
C15_Witness ==
    /\ clipboard_items # {}
    /\ \E id \in 1..clip_seq : ~\E r \in clipboard_items : r.id = id

\* C16: clear() removes every history row and leaves the master index as it
\* is: afterwards recent() is empty and all_enabled() returns what it
\* returned before.
C16_ClearScope ==
    [][clear_clipboard_history =>
          /\ clipboard_items' = {}
          /\ WithSource(Limit(ByRecency(clipboard_items'), MaxLimit), "clipboard") = <<>>
          /\ AllEnabled(master_files', master_items')
                 = AllEnabled(master_files, master_items)
          /\ UNCHANGED <<master_files, master_items>>
      ]_vars

\* The history was cleared while an enabled source has items.
C16_Witness ==
    /\ clipboard_items = {}
    /\ clip_seq > 0
    /\ AllEnabled(master_files, master_items) # {}

\* C17: remove_source(source_id) drops the items of the source and its
\* metadata row and leaves every other source as it is; afterwards
\* all_enabled() has no item of the removed source.
C17_RemoveSource ==
    [][\A id \in 1..MaxFileId :
          delete_master_file(id) =>
              /\ ~\E f \in master_files' : f.id = id
              /\ ~\E i \in master_items' : i.master_file_id = id
              /\ {f \in master_files' : f.id # id} = {f \in master_files : f.id # id}
              /\ {i \in master_items' : i.master_file_id # id}
                     = {i \in master_items : i.master_file_id # id}
              /\ ~\E i \in AllEnabled(master_files', master_items') :
                     i.master_file_id = id
      ]_vars

\* One source was removed; the other one still has its items.
C17_Witness ==
    /\ file_seq = 2
    /\ Cardinality(master_files) = 1
    /\ \E f \in master_files : \E i \in master_items : i.master_file_id = f.id
    /\ item_seq > Cardinality(master_items)

\* A text without its whitespace characters.
RemoveAllWhitespace(s) == SelectSeq(s, LAMBDA ch : ch \notin Whitespace)

\* s is a subsequence of t: its characters occur in t in order.
RECURSIVE IsSubsequence(_, _)
IsSubsequence(s, t) ==
    IF s = <<>> THEN TRUE
    ELSE IF t = <<>> THEN FALSE
    ELSE IF Head(s) = Head(t) THEN IsSubsequence(Tail(s), Tail(t))
    ELSE IsSubsequence(s, Tail(t))

\* C18: match(query, text) reports a match exactly when the query, lowercased
\* and with ALL whitespace characters removed (spaces, tabs, newlines), is a
\* subsequence of the lowercased text; the case of query and text and the
\* spacing inside the text do not change the verdict.
C18_MatchIffSubsequence ==
    matched # NotCalled =>
        /\ matched[1] =
               IsSubsequence(RemoveAllWhitespace(LowerText(search_term)),
                             LowerText(m_text))
        /\ matched[1] = MatchResult(LowerText(search_term), LowerText(m_text))[1]
        /\ matched[1] = MatchResult(search_term, RemoveAllWhitespace(m_text))[1]

\* C19: for a matching non-empty query, quality = query_length / span over
\* the greedy positions; match("abc", "aXbXc") has quality 0.6,
\* match("abc", "abc") has 1.0 and match("xyz", "abc") is no match with 0.0.
C19_QualityIsDensity ==
    matched # NotCalled =>
        LET normalized == NormalizeSearch(search_term)
            target == LowerText(m_text)
        IN  /\ (matched[1] /\ normalized # <<>>) =>
                   matched[2] = Density(normalized, MatchedPositions(normalized, target, 0))
            /\ (search_term = <<"a", "b", "c">> /\ m_text = <<"a", "X", "b", "X", "c">>)
                   => matched = <<TRUE, (6 * One) \div 10>>
            /\ (search_term = <<"a", "b", "c">> /\ m_text = <<"a", "b", "c">>)
                   => matched = <<TRUE, One>>
            /\ (search_term = <<"x", "y", "z">> /\ m_text = <<"a", "b", "c">>)
                   => matched = <<FALSE, 0>>

\* C20: the quality lies in [0.0, 1.0]; it is 0.0 exactly when the query does
\* not match, positive when it matches, 1.0 when the matched characters are
\* contiguous, and no bonus lifts it above 1.0.
C20_QualityRange ==
    matched # NotCalled =>
        LET normalized == NormalizeSearch(search_term)
            positions == MatchedPositions(normalized, LowerText(m_text), 0)
        IN  /\ 0 <= matched[2] /\ matched[2] <= One
            /\ (matched[2] = 0) = ~matched[1]
            /\ (/\ matched[1]
                /\ normalized # <<>>
                /\ positions[Len(positions)] - positions[1] + 1 = Len(normalized))
                   => matched[2] = One

\* A contiguous match at the start of the text: both bonuses apply to a
\* density that is 1.0 already.
C20_Witness ==
    /\ matched = <<TRUE, One>>
    /\ search_term = <<"a", "B">>
    /\ m_text = <<"a", "b", " ">>

\* C21: a query that is empty, or empty once lowercased and stripped of all
\* its whitespace characters, matches every text with quality 1.0.
C21_EmptyQueryMatchesAll ==
    (matched # NotCalled /\ RemoveAllWhitespace(LowerText(search_term)) = <<>>)
        => matched = <<TRUE, One>>

\* The reference timestamp of a row: master_modified of a master item,
\* last_copied_at of a history row; none when it is absent or unparsable.
ReferenceTime(item) ==
    IF "master_modified" \in DOMAIN item THEN item.master_modified
    ELSE item.last_copied_at

HasReference(item) == ReferenceTime(item) \notin {NullTime, Garbled}

\* C22: an empty search returns all items sorted by recency: for any mix of
\* history and master items the result lists every item, and an item with a
\* more recent reference timestamp never comes after one with an older one.
C22_EmptySearchByRecency ==
    (calls > 0 /\ search_term = <<>> /\ s_limit = 0) =>
        /\ Len(results) = Len(s_items)
        /\ {results[k].id : k \in 1..Len(results)} = 1..Len(s_items)
        /\ \A i, j \in 1..Len(results) :
               (i < j /\ HasReference(results[i]) /\ HasReference(results[j]))
                   => ReferenceTime(results[i]) >= ReferenceTime(results[j])

\* Positions of the items the query matches.
MatchingIds == {k \in 1..Len(s_items) : MatchResult(search_term, s_items[k].content)[1]}

C24_NormalizedScore ==
    calls > 0 =>
        \A k \in 1..Len(results) :
            /\ results[k].search_score * (config.recency_weight + config.quality_weight)
                   = 10 * (config.recency_weight * results[k].recency_score
                             + config.quality_weight * results[k].match_quality)
            /\ 0 <= results[k].search_score
            /\ results[k].search_score <= 10 * One

\* C25: the elapsed time of the recency score is clamped to be >= 0: an item
\* whose reference timestamp lies after `now` gets the recency_score of an
\* item touched now (1.0), and recency_score lies in [0, 1] for every
\* timestamp.
C25_ElapsedClamped ==
    calls > 0 =>
        \A k \in 1..Len(results) :
            /\ 0 <= results[k].recency_score
            /\ results[k].recency_score <= One
            /\ (HasReference(results[k]) /\ ReferenceTime(results[k]) >= now)
                   => results[k].recency_score = One

\* A row of a master file (durable), as opposed to a history row (volatile).
IsMaster(item) == "master_modified" \in DOMAIN item

\* C26: of two items with the same reference timestamp (past or future) and
\* the same match quality, one a master item and one a history row, the
\* master item's recency_score is greater than or equal to the other's.
C26_DurableDecaysSlower ==
    calls > 0 =>
        \A i, j \in 1..Len(results) :
            (/\ IsMaster(results[i]) /\ ~IsMaster(results[j])
             /\ HasReference(results[i]) /\ HasReference(results[j])
             /\ ReferenceTime(results[i]) = ReferenceTime(results[j])
             /\ results[i].match_quality = results[j].match_quality)
                => results[i].recency_score >= results[j].recency_score

\* C27: of two candidates of the same kind that differ only in their
\* timestamp, the more recently touched one has a strictly higher
\* combined_score for the same query, and is ranked before the other.
C27_RecencyMonotone ==
    calls > 0 =>
        \A i, j \in 1..Len(results) :
            (/\ IsMaster(results[i]) = IsMaster(results[j])
             /\ results[i].content = results[j].content
             /\ HasReference(results[i]) /\ HasReference(results[j])
             /\ ReferenceTime(results[i]) > ReferenceTime(results[j]))
                => /\ results[i].search_score > results[j].search_score
                   /\ i < j

\* The ids of a result list, in its order.
IdList(rs) == [k \in 1..Len(rs) |-> rs[k].id]

C31_SearchSideEffectFree ==
    /\ [][((\E q \in SearchQueries, l \in 1..MaxLimit :
                 search_clipboard(q, l, FALSE) \/ search_masters(q, l, FALSE))
            \/ engine_search(MaxCalls))
           => UNCHANGED <<tables, disk, s_items, search_term, s_limit, config>>
         ]_vars
    /\ [](\A k \in 1..Len(s_items) :
             DOMAIN s_items[k] \cap {"search_score", "match_quality", "recency_score"} = {})

\* C31 witness: two searches of the engine have run on a list with a match
\* (the result carries the score, the item passed in does not), and a search
\* of the store has returned a row of the history.
C31_Witness ==
    /\ calls = MaxCalls
    /\ Len(results) > 0
    /\ "search_score" \in DOMAIN results[1]
    /\ \E k \in 1..Len(s_items) :
           s_items[k].id = results[1].id /\ "search_score" \notin DOMAIN s_items[k]
    /\ Len(rows) > 0
    /\ \E r \in clipboard_items : r.id = rows[1].id /\ r.content = rows[1].content

\* The monitor is running and the clipboard holds text c that differs from
\* what the monitor saw last.
Pending(c) == running /\ clipboard.text = c /\ Hash(c) # last_hash

\* C32: a failure while reading the clipboard or while recording a detected
\* change does not stop the poller.  The failing iteration and the failing
\* record leave _running, _last_hash and _ignore_next as they were; an
\* iteration that reads new text while no password manager has the focus
\* and no change is to be ignored emits it; and text that is pending after
\* a failure is detected by a later iteration unless the monitor is stopped,
\* the clipboard changes again or a password manager takes the focus.
C32_PollerSurvivesFailure ==
    /\ [][(run_iteration(TRUE) \/ on_clipboard_changed(TRUE, MaxKept + 1))
             => UNCHANGED <<running, last_hash, ignore_next>>]_vars
    /\ [][(/\ run_iteration(FALSE)
            /\ ~is_password_manager_active
            /\ clipboard.text # <<>>
            /\ Hash(clipboard.text) # last_hash
            /\ ~ignore_next)
             => signals' = Append(signals, clipboard.text)]_vars
    /\ \A c \in StoreTexts :
           ((m_failed \/ err = "OperationalError") /\ Pending(c))
               ~> \/ last_hash = Hash(c)
                  \/ ~running
                  \/ clipboard.text # c
                  \/ is_password_manager_active

\* C32 witness: the record of the first change failed (nothing is stored),
\* the monitor is still running, and it has detected and emitted the next
\* change, which waits in the queue of the main thread.
C32_Witness ==
    /\ err = "OperationalError"
    /\ clipboard_items = {}
    /\ running
    /\ signals = <<clipboard.text>>
    /\ last_hash = Hash(clipboard.text)
    /\ clipboard.source = "notepad.exe"

\* C33: clipboard text that was copied while a password manager had the
\* focus is never emitted by the monitor, in no later iteration, also not
\* after the focus has moved on while the clipboard still holds that text.
C33_PasswordNeverEmitted ==
    [][((\E f \in BOOLEAN : run_iteration(f)) /\ Len(signals') > Len(signals))
          => clipboard.source \notin EXCLUDED_PROCESSES]_vars

\* C34: each record() call for non-empty content that returns has performed
\* exactly one row mutation, an insert or an update, never both and never
\* none, also when a delete or a clear of the same content ran between the
\* call's failed insert and its update.
C34_ExactlyOneMutation ==
    \A t \in Threads :
        (pc[t] = "done" /\ arg[t] # <<>> /\ raised[t] = "none") => mutated[t] = 1

\* ps places the characters of the query in target greedily: each character at
\* the earliest 0-based position that lies strictly after the position of
\* the character before it, the first at the earliest position of the text.
IsGreedy(ps, query, target) ==
    \A k \in 1..Len(query) :
        LET from == IF k = 1 THEN 0 ELSE ps[k - 1] + 1 IN
        /\ ps[k] >= from
        /\ target[ps[k] + 1] = query[k]
        /\ \A j \in from..(ps[k] - 1) : target[j + 1] # query[k]

\* C35: the matcher is greedy.  When the query has a character, the result
\* is a match exactly when a greedy placement exists; the matched positions
\* are that placement, they are strictly increasing, and the quality is
\* computed from the span of the greedy placement, also when a tighter
\* placement exists.
C35_GreedyMatch ==
    matched # NotCalled =>
        LET query == NormalizeSearch(search_term)
            target == LowerText(m_text)
            n == Len(query)
            placements == {ps \in [1..n -> 0..(Len(target) - 1)] :
                              IsGreedy(ps, query, target)}
        IN  n > 0 =>
                IF matched[1]
                    THEN \E ps \in placements :
                            /\ placements = {ps}
                            /\ MatchedPositions(query, target, 0) = ps
                            /\ \A k \in 2..n : ps[k - 1] < ps[k]
                            /\ matched[2] =
                                   BoundaryBoost(
                                       SubstringBoost((n * One) \div (ps[n] - ps[1] + 1),
                                                      query, target),
                                       BoundaryHits(ps, target))
                    ELSE placements = {} /\ matched[2] = 0

\* C35 witness: "ab" in "aab".  The greedy placement is positions 0 and 2
\* (span 3, quality 0.84 with the boosts); the tighter placement 1 and 2
\* would give 1.0.
C35_Witness ==
    /\ search_term = <<"a", "b">>
    /\ m_text = <<"a", "a", "b">>
    /\ matched = <<TRUE, 839998>>

\* C36: ignore_next_change() suppresses only the clipboard write the app
\* made itself.  Whenever an iteration of the monitor detects new text that
\* the user put on the clipboard, it emits it: the ignore flag never stays
\* set so as to swallow a user copy, whatever the app pasted before.
C36_IgnoreOnlyOwnCopy ==
    [][(/\ \E f \in BOOLEAN : run_iteration(f)
        /\ last_hash' # last_hash
        /\ clipboard.source # "ShiftPaste")
          => signals' = Append(signals, clipboard.text)]_vars

\* C37: a source that a reindex error disabled becomes searchable again.
\* Once its workbook is readable again (it was saved after the error), a
\* successful reindex eventually clears the error and enables the file,
\* also after the watcher's paths were refreshed or the application was
\* started again while the file was in error state.
C37_ErrorStateRecovers ==
    \A p \in Paths :
        (/\ workbooks[p].state = "ok"
         /\ \E f \in master_files :
                f.file_path = p /\ f.is_enabled = 0 /\ f.last_error # NoError)
            ~> (\/ workbooks[p].state = "corrupt"
                \/ \E f \in master_files :
                       f.file_path = p /\ f.is_enabled = 1 /\ f.last_error = NoError)

\* C38: history trimming.  When a clipboard change is handled on a history
\* of at most max_items rows, the history holds at most max_items rows
\* afterwards, the row just recorded is one of them, and no row that was
\* dropped was touched later than a row that was kept.
C38_TrimKeepsNewest ==
    [][\A m \in 1..(MaxKept + 1) :
          (on_clipboard_changed(FALSE, m) /\ Cardinality(clipboard_items) <= m)
              => /\ Cardinality(clipboard_items') <= m
                 /\ \E r \in clipboard_items' : r.content = Head(signals)
                 /\ \A d \in clipboard_items :
                        (\A r \in clipboard_items' : r.id # d.id)
                            => \A r \in clipboard_items' :
                                   r.last_copied_at >= d.last_copied_at
      ]_vars

\* C39: re-recording content that is stored changes only last_touched_at
\* and touch_count of its row: the row keeps its id, content, content_hash
\* and created_at, and every other row is unchanged.  An id once given to a
\* row is never given to a different row later, also after delete or
\* clear: no row has an id above the sequence value, the sequence never
\* goes back, and a row that appears takes an id above it.
C39_RerecordFrame ==
    /\ [][\A c \in Contents \ {<<>>} :
             (add_clipboard_item(c, "none") /\ RowsOf(clipboard_items, c) # {})
                 => \E r \in clipboard_items :
                        /\ r.content = c
                        /\ clipboard_items' =
                               (clipboard_items \ {r})
                                   \cup {[r EXCEPT !.last_copied_at = now,
                                                   !.copy_count = r.copy_count + 1]}
         ]_vars
    /\ [](\A r \in clipboard_items : r.id <= clip_seq)
    /\ [][/\ clip_seq' >= clip_seq
           /\ \A n \in clipboard_items' :
                  \/ n.id > clip_seq
                  \/ \E r \in clipboard_items :
                         /\ r.id = n.id
                         /\ r.content = n.content
                         /\ r.content_hash = n.content_hash
                         /\ r.created_at = n.created_at
         ]_vars

\* C39 witness: the rows with ids 1 and 2 are gone (deleted or cleared), the
\* content recorded after that got id 3 and has been recorded again later
\* than it was created.
C39_Witness ==
    /\ clip_seq = 3
    /\ \E r \in clipboard_items :
           /\ clipboard_items = {r}
           /\ r.id = 3
           /\ r.copy_count = 2
           /\ r.last_copied_at > r.created_at

====
